---- MODULE Spec2Model ----
(***************************************************************************)
(* URL shortener backend: the urls table (Database), the request handlers  *)
(* of UrlController running concurrently against it, and the pure helpers  *)
(* UrlValidator and ShortCodeGenerator they call.                          *)
(*                                                                         *)
(* A handler is cut at its awaits.  One action is one store statement      *)
(* executed by the database together with the handler code that runs on    *)
(* its result, up to the point where the next statement is sent.  The code *)
(* of a handler before its first await touches no shared state, so it is   *)
(* folded into the action of its first statement; ShortCodeGenerator's     *)
(* random draw reads no state either and is taken when the lookup that     *)
(* uses it executes.                                                       *)
(***************************************************************************)
EXTENDS Integers, Sequences, FiniteSets, TLC

VARIABLES
  table,      \* rows of the urls table
  nextId,     \* next value of the SERIAL sequence behind urls.id
  clock,      \* the database's CURRENT_TIMESTAMP, as a logical time
  pc,         \* per request slot: the await its handler is suspended at
  loc,        \* per request slot: the handler's local variables
  step,       \* history: the handler step taken last: its route, its slot,
              \*   the await it resumed from and, for a first step, the request
  res,        \* the response sent by the latest step, NoResponse if none
  dbOps,      \* history: store operations executed by the latest step
  incCalls,   \* history: per code, incrementClickCount calls that found a
              \*   row since the code's current row was inserted
  redirects,  \* history: per code, 301 answers given while a row existed,
              \*   since the code's current row was inserted
  checkedOut, \* clients of the pg pool that are checked out
  call,       \* per request slot: the Database method it is inside, the
              \*   await the method is suspended at and how the last one ended
  fn,         \* the utility function applied last, its argument and result
  rlStore,    \* the rate limiter's store: client key -> count and resetTime
  nowMs,      \* Date.now(), in milliseconds
  admits,     \* history: per client key, the times of its admitted requests
              \*   of the last windowMs milliseconds
  rl,         \* history: the request the rate limiter handled last
  schema      \* the CREATE TABLE of initDatabase: "pending" or "ready"

vars == <<table, nextId, clock, pc, loc, step, res, dbOps, incCalls, redirects,
          checkedOut, call, fn, rlStore, nowMs, admits, rl, schema>>

-----------------------------------------------------------------------------
(* Bounds of the model *)

MaxId == 2         \* INSERT statements run in one behaviour (SERIAL values)
MaxClicks == 2     \* click count reached by one row

Procs == {"r1", "r2"}      \* request slots: handlers that run concurrently

-----------------------------------------------------------------------------
(* Characters and short codes.  A code is a sequence of one-character      *)
(* strings.                                                                *)

UpperSeq ==
  <<"A","B","C","D","E","F","G","H","I","J","K","L","M",
    "N","O","P","Q","R","S","T","U","V","W","X","Y","Z">>
LowerSeq ==
  <<"a","b","c","d","e","f","g","h","i","j","k","l","m",
    "n","o","p","q","r","s","t","u","v","w","x","y","z">>
DigitSeq == <<"0","1","2","3","4","5","6","7","8","9">>

Range(s) == {s[i] : i \in DOMAIN s}

\* /^[a-zA-Z0-9]+$/ character class
AlphaNumChars == Range(UpperSeq) \cup Range(LowerSeq) \cup Range(DigitSeq)

\* nanoid's default alphabet
UrlAlphabet == AlphaNumChars \cup {"-", "_"}

ToLowerChar(ch) ==
  IF ch \in Range(UpperSeq)
    THEN LowerSeq[CHOOSE i \in DOMAIN UpperSeq : UpperSeq[i] = ch]
    ELSE ch

ToLowerCase(code) == [i \in DOMAIN code |-> ToLowerChar(code[i])]

DEFAULT_LENGTH == 6
CUSTOM_CODE_MAX_LENGTH == 20

reservedWords ==
  { <<"a","p","i">>, <<"a","d","m","i","n">>, <<"w","w","w">>, <<"a","p","p">>,
    <<"d","a","s","h","b","o","a","r","d">>, <<"h","e","a","l","t","h">>,
    <<"s","t","a","t","u","s">> }

\* variant: a code that contains a reserved word is refused
IsValidCustomCodeContains(code) ==
  /\ Len(code) >= 3 /\ Len(code) <= CUSTOM_CODE_MAX_LENGTH
  /\ \A i \in DOMAIN code : code[i] \in AlphaNumChars
  /\ ~\E w \in reservedWords : \E i \in DOMAIN code :
        /\ i + Len(w) - 1 <= Len(code)
        /\ SubSeq(ToLowerCase(code), i, i + Len(w) - 1) = w

IsValidCustomCode(code) ==
  IF code = <<>> THEN FALSE
  ELSE IF Len(code) < 3 \/ Len(code) > CUSTOM_CODE_MAX_LENGTH THEN FALSE
  ELSE IF ~(\A i \in DOMAIN code : code[i] \in AlphaNumChars) THEN FALSE
  ELSE IF ToLowerCase(code) \in reservedWords THEN FALSE
  ELSE TRUE

\* The codes the model draws from: request inputs and generator outputs.
CodeA == <<"a","B","3","x","Y","9">>
CodeH == <<"h","e","a","l","t","h">>
SampleCodes ==
  { <<>>,                                   \* empty string
    <<"a","b">>,                            \* too short
    <<"a","-","b">>,                        \* not alphanumeric
    <<"A","P","I">>,                        \* reserved, upper case
    CodeA, CodeH }

\* The random draws of nanoid: each seed stands for one run of the random
\* source, read cyclically.
NanoSeeds == { CodeA \o <<"_","-">>, CodeH \o <<"-","Z","0">> }

\* nanoid(size): a string of size characters of the alphabet
NanoId(size) ==
  { [i \in 1..size |-> s[((i - 1) % Len(s)) + 1]] : s \in NanoSeeds }

\* variant: a size of 0 falls back to nanoid's own default, 21
GenerateOrDefaultSize(length) == NanoId(IF length = 0 THEN 21 ELSE length)

Generate(length) == NanoId(length)

-----------------------------------------------------------------------------
(* URLs.  A URL string is held by its parts: scheme (the text before       *)
(* "://", "" when the string has none), host (its dot-separated labels)    *)
(* and path (the characters after the host; "/" and "a" are the only path  *)
(* characters of the model).                                               *)

NoUrl == [scheme |-> "", host |-> <<>>, path |-> <<>>]   \* "" or undefined

HostExample == <<"example","com">>
Urls ==
  { NoUrl,
    [scheme |-> "",      host |-> HostExample,            path |-> <<>>],
    [scheme |-> "ftp",   host |-> HostExample,            path |-> <<>>],
    [scheme |-> "http",  host |-> <<"localhost">>,        path |-> <<>>],
    [scheme |-> "http",  host |-> <<"10","0","0","1">>,   path |-> <<"/","a">>],
    [scheme |-> "https", host |-> HostExample,            path |-> <<"/">>],
    [scheme |-> "http",  host |-> HostExample,            path |-> <<"/","a">>] }

\* hostname.startsWith(prefix + "."): the leading labels are those of prefix
\* and a dot follows them.
HostStartsWith(host, prefix) ==
  /\ Len(host) > Len(prefix)
  /\ \A i \in DOMAIN prefix : host[i] = prefix[i]

\* the labels that are decimal numbers (all of them below 256)
NumericLabels == {"0","1","8","10","16","100","127","168","169","172","192"}

\* validator's isIP: four numeric labels
IsIPv4(host) == Len(host) = 4 /\ \A i \in DOMAIN host : host[i] \in NumericLabels

\* validator's isFQDN with require_tld: at least two labels, the last one
\* alphabetic
IsFQDN(host) == Len(host) >= 2 /\ host[Len(host)] \notin NumericLabels

\* validator.isURL(url, {protocols: ['http','https'], require_protocol: true}):
\* the scheme is required and must be one of the two, and the host must be an
\* IP address or a domain name with a top-level domain.
IsURL(url) ==
  /\ url.scheme \in {"http", "https"}
  /\ IsIPv4(url.host) \/ IsFQDN(url.host)
  /\ url.path = <<>> \/ Head(url.path) = "/"

\* new URL(url) succeeds
Parses(url) == url.scheme # "" /\ url.host # <<>>

\* variant: the 172. prefix is not among the private ranges
IsValidUrlWithout172(url) ==
  /\ url # NoUrl /\ IsURL(url) /\ Parses(url)
  /\ url.host \notin {<<"localhost">>, <<"127","0","0","1">>}
  /\ ~HostStartsWith(url.host, <<"192","168">>)
  /\ ~HostStartsWith(url.host, <<"10">>)

IsValidUrl(url) ==
  IF url = NoUrl THEN FALSE
  ELSE IF ~IsURL(url) THEN FALSE
  ELSE IF ~Parses(url) THEN FALSE
  ELSE IF \/ url.host = <<"localhost">>
          \/ url.host = <<"127","0","0","1">>
          \/ HostStartsWith(url.host, <<"192","168">>)
          \/ HostStartsWith(url.host, <<"10">>)
          \/ HostStartsWith(url.host, <<"172">>)
       THEN FALSE
  ELSE TRUE

\* URL.prototype.toString(): a URL of a special scheme (http, https, ftp)
\* without a path is given "/"
UrlToString(url) ==
  [url EXCEPT !.path = IF url.path = <<>> /\ url.scheme \in {"http", "https", "ftp"}
                         THEN <<"/">> ELSE url.path]

\* .replace(/\/$/, ''): one slash at the very end of the string is dropped
StripTrailingSlash(url) ==
  IF url.path # <<>> /\ url.path[Len(url.path)] = "/"
    THEN [url EXCEPT !.path = SubSeq(url.path, 1, Len(url.path) - 1)]
    ELSE url

\* variant: the canonical form is returned as it is
NormalizeUrlKeepSlash(url) == IF Parses(url) THEN UrlToString(url) ELSE url

NormalizeUrl(url) ==
  IF Parses(url) THEN StripTrailingSlash(UrlToString(url)) ELSE url

-----------------------------------------------------------------------------
(* Database: the urls table and its statements.  Every statement is one    *)
(* atomic step of the database.                                            *)

Null == [id |-> 0]      \* null / no row

RowsOf(tbl, shortCode) == {r \in tbl : r.shortCode = shortCode}

\* rows[0] of a result
FirstRow(rows) == IF rows = {} THEN Null ELSE CHOOSE r \in rows : TRUE

\* (variant) the table without its UNIQUE constraint
NoUniqueConstraint(tbl, shortCode) == FALSE

\* short_code VARCHAR(50) UNIQUE
ViolatesUnique(tbl, shortCode) == RowsOf(tbl, shortCode) # {}

\* (variant) the row is written before the constraint is checked and stays
\* when the statement fails
CreateUrlPartialWrite(tbl, id, now, url) ==
  LET row == [id |-> id, originalUrl |-> url.originalUrl,
              shortCode |-> url.shortCode, createdAt |-> now,
              clickCount |-> url.clickCount]
  IN  [threw |-> RowsOf(tbl, url.shortCode) # {}, table |-> tbl \cup {row},
       row |-> row]

\* INSERT INTO urls ... RETURNING ...: id from the sequence, created_at from
\* CURRENT_TIMESTAMP.  A unique violation aborts the statement (the query
\* rejects, createUrl throws) and leaves the table as it was; the sequence
\* value it drew is not given back.
CreateUrl(tbl, id, now, url) ==
  IF ViolatesUnique(tbl, url.shortCode)
    THEN [threw |-> TRUE, table |-> tbl, row |-> Null]
    ELSE LET row == [id |-> id, originalUrl |-> url.originalUrl,
                     shortCode |-> url.shortCode, createdAt |-> now,
                     clickCount |-> url.clickCount]
         IN  [threw |-> FALSE, table |-> tbl \cup {row}, row |-> row]

\* (variant) the lookup compares the wrong column and finds nothing
GetUrlByWrongColumn(tbl, shortCode) == Null

\* SELECT * FROM urls WHERE short_code = $1
GetUrlByShortCode(tbl, shortCode) == FirstRow(RowsOf(tbl, shortCode))

\* (variant) SET click_count = 1
ClickedReset(row) == [row EXCEPT !.clickCount = 1]

\* (variant) SET click_count = click_count + 2
ClickedTwice(row) == [row EXCEPT !.clickCount = row.clickCount + 2]

\* SET click_count = click_count + 1
\* variant: the statement counts down
ClickedDown(row) == [row EXCEPT !.clickCount = row.clickCount - 1]

\* variant: the statement also stamps the row
ClickedTouch(row) ==
  [row EXCEPT !.clickCount = row.clickCount + 1, !.createdAt = row.createdAt + 1]

Clicked(row) == [row EXCEPT !.clickCount = row.clickCount + 1]

\* (variant) the UPDATE without its WHERE clause
IncrementEveryRow(tbl, shortCode) ==
  LET upd == {[r EXCEPT !.clickCount = r.clickCount + 1] : r \in tbl}
  IN  [table |-> upd, row |-> FirstRow({r \in upd : r.shortCode = shortCode})]

\* UPDATE urls SET click_count = click_count + 1 WHERE short_code = $1
\* RETURNING ...
IncrementClickCount(tbl, shortCode) ==
  LET hit == RowsOf(tbl, shortCode)
      upd == {Clicked(r) : r \in hit}
  IN  [table |-> (tbl \ hit) \cup upd, row |-> FirstRow(upd)]

\* DELETE FROM urls WHERE short_code = $1; true iff rowCount > 0
\* variant: the result only tests that the driver reported a row count
DeleteUrlCountNotNull(tbl, shortCode) ==
  [table |-> tbl \ RowsOf(tbl, shortCode), deleted |-> TRUE]

\* variant: the DELETE has no WHERE clause
DeleteEveryRow(tbl, shortCode) ==
  [table |-> {}, deleted |-> Cardinality(RowsOf(tbl, shortCode)) > 0]

DeleteUrl(tbl, shortCode) ==
  LET hit == RowsOf(tbl, shortCode)
  IN  [table |-> tbl \ hit, deleted |-> Cardinality(hit) > 0]

-----------------------------------------------------------------------------
(* UrlController: requests and responses *)

\* (variant) one pass too many
maxAttemptsOffByOne == 10 + 1

maxAttempts == 10

Undefined == <<"undefined">>        \* a body field that is absent

\* req.body of POST /api/shorten
RequestUrls ==
  { u \in Urls : u = NoUrl \/ u.scheme = "ftp" \/ u.host = <<"10","0","0","1">>
                 \/ IsValidUrl(u) }
RequestCodes == {Undefined, <<>>, <<"A","P","I">>, <<"a","-","b">>, CodeA}
Bodies == [url : RequestUrls, customCode : RequestCodes]

\* req.params.shortCode of the other routes
ParamCodes == {<<>>, CodeA, CodeH}

\* JavaScript truthiness of a string-or-undefined value
Truthy(v) == v # Undefined /\ v # <<>>

\* `${req.protocol}://${req.get('host')}`
BaseUrl == "http://localhost:3000"
\* variant: base url and code joined without the slash
ShortUrlNoSlash(shortCode) == <<BaseUrl, shortCode>>

ShortUrl(shortCode) == <<BaseUrl, "/", shortCode>>

NoResponse == [op |-> "none", status |-> 0]

ErrorResponse(op, status, error) ==
  [op |-> op, status |-> status, body |-> [success |-> FALSE, error |-> error]]

CreatedResponse(urlRecord, shortCode) ==
  [op |-> "shorten", status |-> 201,
   body |-> [success |-> TRUE,
             data |-> [id |-> urlRecord.id,
                       originalUrl |-> urlRecord.originalUrl,
                       shortCode |-> urlRecord.shortCode,
                       shortUrl |-> ShortUrl(shortCode),
                       createdAt |-> urlRecord.createdAt]]]

NotFoundPage(shortCode) ==
  [op |-> "redirect", status |-> 404, shortCode |-> shortCode,
   body |-> [html |-> "404 - URL Not Found"]]

RedirectResponse(shortCode, location) ==
  [op |-> "redirect", status |-> 301, shortCode |-> shortCode,
   location |-> location]

StatsResponse(shortCode, urlRecord) ==
  [op |-> "stats", status |-> 200, shortCode |-> shortCode,
   body |-> [success |-> TRUE,
             data |-> [id |-> urlRecord.id,
                       originalUrl |-> urlRecord.originalUrl,
                       shortCode |-> urlRecord.shortCode,
                       createdAt |-> urlRecord.createdAt,
                       clickCount |-> urlRecord.clickCount,
                       shortUrl |-> ShortUrl(urlRecord.shortCode)]]]

DeletedResponse(shortCode) ==
  [op |-> "delete", status |-> 200, shortCode |-> shortCode,
   body |-> [success |-> TRUE, message |-> "URL deleted successfully"]]

ParamError(op, status, shortCode, error) ==
  [op |-> op, status |-> status, shortCode |-> shortCode,
   body |-> [success |-> FALSE, error |-> error]]

\* The handler's locals that live across an await.
IdleLoc ==
  [normalizedUrl |-> NoUrl, shortCode |-> <<>>, attempts |-> 0, urlRecord |-> Null,
   page |-> 0, limit |-> 0, total |-> 0]

\* a slot that is in no Database method
IdleCall == [method |-> "none", at |-> "idle", done |-> 0, ended |-> "none"]

\* no utility function applied yet
NoCall == [name |-> "none"]

\* client keys of the rate limiter (req.ip)
Clients == {"A", "B"}

\* this.store[clientId] of a client without entry
NoEntry == [count |-> 0, resetTime |-> 0]

\* no request has reached the rate limiter yet
NoRequest == [client |-> "none"]

\* the state the constructors leave, whatever initDatabase has done
Constructed ==
  /\ table = {}
  /\ nextId = 1
  /\ clock = 0
  /\ pc = [p \in Procs |-> "idle"]
  /\ loc = [p \in Procs |-> IdleLoc]
  /\ step = [op |-> "none"]
  /\ res = NoResponse
  /\ dbOps = 0
  /\ incCalls = [c \in SampleCodes |-> 0]
  /\ redirects = [c \in SampleCodes |-> 0]
  /\ checkedOut = 0
  /\ call = [p \in Procs |-> IdleCall]
  /\ fn = NoCall
  /\ rlStore = [k \in {} |-> NoEntry]
  /\ nowMs = 0
  /\ admits = [k \in Clients |-> <<>>]
  /\ rl = NoRequest

\* The server at work: the schema is in place
Init == Constructed /\ schema = "ready"

\* The handler of slot p sends response r and returns, having executed n
\* store operations in this step.
Reply(p, r, n) ==
  /\ pc' = [pc EXCEPT ![p] = "idle"]
  /\ loc' = [loc EXCEPT ![p] = IdleLoc]
  /\ res' = r
  /\ dbOps' = n
  /\ UNCHANGED <<checkedOut, call, fn, rlStore, nowMs, admits, rl, schema>>

\* The handler of slot p has had one store operation executed and is
\* suspended at its next await with locals l.
Suspend(p, at, l) ==
  /\ pc' = [pc EXCEPT ![p] = at]
  /\ loc' = [loc EXCEPT ![p] = l]
  /\ res' = NoResponse
  /\ dbOps' = 1
  /\ UNCHANGED <<checkedOut, call, fn, rlStore, nowMs, admits, rl, schema>>

StoreUnchanged == UNCHANGED <<table, nextId, clock, incCalls, redirects>>

\* Requests in flight that will still run an INSERT.
InFlightShorten == Cardinality({q \in Procs : pc[q] \in {"gen", "insert"}})

\* Redirects in flight that will still run the UPDATE for shortCode.
InFlightClicks(shortCode) ==
  Cardinality({q \in Procs : pc[q] = "inc" /\ loc[q].shortCode = shortCode})

\* One pass of the do-while: generate, look the code up, break or count.
\* attempts keeps its value when the loop is left by break.
GenerateAttempt(p, normalizedUrl, attempts) ==
  \E shortCode \in Generate(DEFAULT_LENGTH) :
    LET existing == GetUrlByShortCode(table, shortCode) IN
    IF existing = Null
      THEN Suspend(p, "insert", [IdleLoc EXCEPT !.normalizedUrl = normalizedUrl,
                                                !.shortCode = shortCode,
                                                !.attempts = attempts])
    ELSE IF attempts + 1 < maxAttempts
      THEN Suspend(p, "gen", [IdleLoc EXCEPT !.normalizedUrl = normalizedUrl,
                                             !.attempts = attempts + 1])
    ELSE Reply(p, ErrorResponse("shorten", 500,
                    "Unable to generate unique short code. Please try again"), 1)

\* (variant) only the presence of url is checked
ValidateUrlPresenceOnly(body) ==
  IF body.url = NoUrl THEN "URL is required" ELSE ""

\* "Validate URL": the error the request halts with, "" when it goes on
ValidateUrl(body) ==
  IF body.url = NoUrl THEN "URL is required"
  ELSE IF ~IsValidUrl(body.url)
    THEN "Invalid URL format. Please provide a valid HTTP/HTTPS URL"
  ELSE ""

\* if (customCode)
HasCustomCode(body) == Truthy(body.customCode)

\* (variant) the custom code is taken as it comes
ValidateCustomCodeSkipped(body) == ""

\* the check of a custom code: the error the request halts with, "" when
\* it goes on
ValidateCustomCode(body) ==
  IF ~IsValidCustomCode(body.customCode)
    THEN "Invalid custom code. Must be 3-20 alphanumeric characters and not a reserved word"
    ELSE ""

\* POST /api/shorten, up to the result of the first lookup
CreateShortUrl(p, body) ==
  /\ pc[p] = "idle"
  /\ nextId + InFlightShorten <= MaxId
  /\ step' = [op |-> "shorten", slot |-> p, at |-> "idle", body |-> body]
  /\ StoreUnchanged
  /\ IF ValidateUrl(body) # ""
       THEN Reply(p, ErrorResponse("shorten", 400, ValidateUrl(body)), 0)
     ELSE LET normalizedUrl == NormalizeUrl(body.url) IN
       IF HasCustomCode(body)
         THEN IF ValidateCustomCode(body) # ""
                THEN Reply(p, ErrorResponse("shorten", 400, ValidateCustomCode(body)), 0)
              ELSE LET existingUrl == GetUrlByShortCode(table, body.customCode) IN
                IF existingUrl # Null
                  THEN Reply(p, ErrorResponse("shorten", 409,
                         "Custom code already exists. Please choose a different one"), 1)
                  ELSE Suspend(p, "insert",
                         [IdleLoc EXCEPT !.normalizedUrl = normalizedUrl,
                                         !.shortCode = body.customCode])
         ELSE GenerateAttempt(p, normalizedUrl, 0)

\* the generation loop after a collision: the next pass
RetryGenerate(p) ==
  /\ pc[p] = "gen"
  /\ step' = [op |-> "shorten", slot |-> p, at |-> "gen"]
  /\ StoreUnchanged
  /\ GenerateAttempt(p, loc[p].normalizedUrl, loc[p].attempts)

\* createUrl and the 201 response; a rejected INSERT is caught by the
\* handler's catch block
PersistUrl(p) ==
  /\ pc[p] = "insert"
  /\ step' = [op |-> "shorten", slot |-> p, at |-> "insert"]
  /\ LET shortCode == loc[p].shortCode
         ins == CreateUrl(table, nextId, clock,
                          [originalUrl |-> loc[p].normalizedUrl,
                           shortCode |-> shortCode, clickCount |-> 0])
     IN  /\ table' = ins.table
         /\ nextId' = nextId + 1
         /\ clock' = clock + 1
         /\ IF ins.threw
              THEN /\ Reply(p, ErrorResponse("shorten", 500, "Internal server error"), 1)
                   /\ UNCHANGED <<incCalls, redirects>>
              ELSE /\ Reply(p, CreatedResponse(ins.row, shortCode), 1)
                   /\ incCalls' = [incCalls EXCEPT ![shortCode] = 0]
                   /\ redirects' = [redirects EXCEPT ![shortCode] = 0]

\* GET /:shortCode, up to the result of the lookup
RedirectToOriginalUrl(p, shortCode) ==
  /\ pc[p] = "idle"
  /\ \A r \in RowsOf(table, shortCode) :
       r.clickCount + InFlightClicks(shortCode) < MaxClicks
  /\ step' = [op |-> "redirect", slot |-> p, at |-> "idle", shortCode |-> shortCode]
  /\ StoreUnchanged
  /\ IF shortCode = <<>>
       THEN Reply(p, ParamError("redirect", 400, shortCode, "Short code is required"), 0)
     ELSE LET urlRecord == GetUrlByShortCode(table, shortCode) IN
       IF urlRecord = Null
         THEN Reply(p, NotFoundPage(shortCode), 1)
         ELSE Suspend(p, "inc", [IdleLoc EXCEPT !.shortCode = shortCode,
                                                !.urlRecord = urlRecord])

\* incrementClickCount, whose result the handler does not look at, and the
\* redirect
RedirectIncrement(p) ==
  /\ pc[p] = "inc"
  /\ step' = [op |-> "redirect", slot |-> p, at |-> "inc"]
  /\ LET shortCode == loc[p].shortCode
         upd == IncrementClickCount(table, shortCode)
     IN  /\ table' = upd.table
         /\ incCalls' = [incCalls EXCEPT ![shortCode] =
                           IF upd.row # Null THEN @ + 1 ELSE @]
         /\ redirects' = [redirects EXCEPT ![shortCode] =
                            IF RowsOf(table, shortCode) # {} THEN @ + 1 ELSE @]
         /\ Reply(p, RedirectResponse(shortCode, loc[p].urlRecord.originalUrl), 1)
  /\ UNCHANGED <<nextId, clock>>

\* DELETE /api/urls/:shortCode
DeleteUrlHandler(p, shortCode) ==
  /\ pc[p] = "idle"
  /\ step' = [op |-> "delete", slot |-> p, at |-> "idle", shortCode |-> shortCode]
  /\ UNCHANGED <<nextId, clock>>
  /\ IF shortCode = <<>>
       THEN /\ Reply(p, ParamError("delete", 400, shortCode, "Short code is required"), 0)
            /\ UNCHANGED <<table, incCalls, redirects>>
     ELSE LET del == DeleteUrl(table, shortCode) IN
       /\ table' = del.table
       /\ IF ~del.deleted
            THEN /\ Reply(p, ParamError("delete", 404, shortCode, "URL not found"), 1)
                 /\ UNCHANGED <<incCalls, redirects>>
            ELSE /\ Reply(p, DeletedResponse(shortCode), 1)
                 /\ incCalls' = [incCalls EXCEPT ![shortCode] = 0]
                 /\ redirects' = [redirects EXCEPT ![shortCode] = 0]

\* GET /api/stats/:shortCode
GetUrlStats(p, shortCode) ==
  /\ pc[p] = "idle"
  /\ step' = [op |-> "stats", slot |-> p, at |-> "idle", shortCode |-> shortCode]
  /\ StoreUnchanged
  /\ IF shortCode = <<>>
       THEN Reply(p, ParamError("stats", 400, shortCode, "Short code is required"), 0)
     ELSE LET urlRecord == GetUrlByShortCode(table, shortCode) IN
       IF urlRecord = Null
         THEN Reply(p, ParamError("stats", 404, shortCode, "URL not found"), 1)
         ELSE Reply(p, StatsResponse(shortCode, urlRecord), 1)

Next ==
  \/ \E p \in Procs, body \in Bodies : CreateShortUrl(p, body)
  \/ \E p \in Procs : RetryGenerate(p)
  \/ \E p \in Procs : PersistUrl(p)
  \/ \E p \in Procs, shortCode \in ParamCodes : RedirectToOriginalUrl(p, shortCode)
  \/ \E p \in Procs : RedirectIncrement(p)
  \/ \E p \in Procs, shortCode \in ParamCodes : DeleteUrlHandler(p, shortCode)
  \/ \E p \in Procs, shortCode \in ParamCodes : GetUrlStats(p, shortCode)

Spec == Init /\ [][Next]_vars

-----------------------------------------------------------------------------
(* The connection pool.  Every Database method checks a client out of the  *)
(* pool, runs its statements on it and gives it back.  A method is cut at  *)
(* its awaits: pool.connect, then one step per statement.                  *)

PoolMax == 20      \* max of the pool when DB_MAX_CONNECTIONS is not set

DbMethods ==
  {"createUrl", "getUrlByShortCode", "getUrlById", "getAllUrls",
   "incrementClickCount", "deleteUrl", "getUrlsByDateRange", "getTopUrls",
   "getStats", "healthCheck"}

\* statements the method runs on its client
QueriesOf(method) == IF method = "getAllUrls" THEN 2 ELSE 1

\* the method releases its client in a finally block; healthCheck releases
\* it as the statement after its query, inside the try
ReleasesInFinally(method) == method # "healthCheck"

\* how a method that fails ends: healthCheck catches and returns false, the
\* others let the error through
Failed(method) == IF method = "healthCheck" THEN "false" ELSE "threw"

\* await this.pool.connect(): a client is checked out, or the promise
\* rejects: always when the pool has none left (connectionTimeoutMillis),
\* and whenever the server cannot be reached
PoolConnect(p, method, ok) ==
  /\ call[p].at = "idle"
  /\ IF ok /\ checkedOut < PoolMax
       THEN /\ checkedOut' = checkedOut + 1
            /\ call' = [call EXCEPT ![p] = [method |-> method, at |-> "query",
                                            done |-> 0, ended |-> "none"]]
       ELSE /\ checkedOut' = checkedOut
            /\ call' = [call EXCEPT ![p] = [method |-> method, at |-> "idle",
                                            done |-> 0, ended |-> Failed(method)]]
  /\ UNCHANGED <<table, nextId, clock, pc, loc, step, res, dbOps, incCalls,
                 redirects, fn, rlStore, nowMs, admits, rl, schema>>

\* await client.query(...) settles: the method goes on to its next
\* statement, or returns, or the query rejected
ClientQuery(p, ok) ==
  /\ call[p].at = "query"
  /\ LET method == call[p].method
         done == call[p].done + 1
     IN  IF ok /\ done < QueriesOf(method)
           THEN /\ call' = [call EXCEPT ![p].done = done]
                /\ checkedOut' = checkedOut
           ELSE /\ call' = [call EXCEPT ![p] =
                     [method |-> method, at |-> "idle", done |-> done,
                      ended |-> IF ok THEN "returned" ELSE Failed(method)]]
                /\ checkedOut' = IF ok \/ ReleasesInFinally(method)
                                   THEN checkedOut - 1
                                   ELSE checkedOut
  /\ UNCHANGED <<table, nextId, clock, pc, loc, step, res, dbOps, incCalls,
                 redirects, fn, rlStore, nowMs, admits, rl, schema>>

NextPool ==
  \/ \E p \in Procs, method \in DbMethods, ok \in BOOLEAN : PoolConnect(p, method, ok)
  \/ \E p \in Procs, ok \in BOOLEAN : ClientQuery(p, ok)

SpecPool == Init /\ [][NextPool]_vars

-----------------------------------------------------------------------------
(* Start-up.  The constructor calls this.initDatabase() and does not await *)
(* it: the Database is handed out while CREATE TABLE IF NOT EXISTS is      *)
(* still on its way, on a pool client of its own.                          *)

\* the methods whose statements name the urls table
UsesTable(method) == method # "healthCheck"

\* await this.pool.query(createTableQuery) settles: the table exists
InitDatabase ==
  /\ schema = "pending"
  /\ schema' = "ready"
  /\ UNCHANGED <<table, nextId, clock, pc, loc, step, res, dbOps, incCalls,
                 redirects, checkedOut, call, fn, rlStore, nowMs, admits, rl>>

\* a statement of a method settles; one that names the table before the
\* table exists is rejected by the server (relation "urls" does not exist)
StartupQuery(p, ok) ==
  /\ (UsesTable(call[p].method) /\ schema # "ready") => ~ok
  /\ ClientQuery(p, ok)

NextStartup ==
  \/ InitDatabase
  \/ \E p \in Procs, method \in DbMethods, ok \in BOOLEAN : PoolConnect(p, method, ok)
  \/ \E p \in Procs, ok \in BOOLEAN : StartupQuery(p, ok)

\* the state new Database() returns in
InitStartup == Constructed /\ schema = "pending"

SpecStartup == InitStartup /\ [][NextStartup]_vars

-----------------------------------------------------------------------------
(* GET /api/urls.  Database.getAllUrls runs two statements on one client,  *)
(* outside a transaction: the handler is cut between them.                 *)

\* a JavaScript number: NaN, or the integer n
NaN == [nan |-> TRUE, n |-> 0]
Num(n) == [nan |-> FALSE, n |-> n]

DigitOf(ch) == CHOOSE d \in 0..9 : DigitSeq[d + 1] = ch

RECURSIVE DigitsValue(_, _, _)
\* value of the digits of s from position i on, up to the first non-digit
DigitsValue(s, acc, i) ==
  IF i > Len(s) \/ s[i] \notin Range(DigitSeq)
    THEN acc
    ELSE DigitsValue(s, acc * 10 + DigitOf(s[i]), i + 1)

\* parseInt of a query parameter: an optional sign and the leading digits,
\* NaN when there is none (and for a parameter that is absent)
ParseInt(raw) ==
  IF raw = Undefined \/ raw = <<>> THEN NaN
  ELSE LET signed == raw[1] \in {"-", "+"}
           digits == IF signed THEN Tail(raw) ELSE raw
       IN  IF digits = <<>> \/ digits[1] \notin Range(DigitSeq) THEN NaN
           ELSE IF raw[1] = "-" THEN Num(0 - DigitsValue(digits, 0, 1))
           ELSE Num(DigitsValue(digits, 0, 1))

\* n || d
OrDefault(v, d) == IF v.nan \/ v.n = 0 THEN d ELSE v.n

QueryPages == {Undefined, <<"0">>, <<"a">>, <<"1">>, <<"2">>, <<"-","1">>}
QueryLimits == {Undefined, <<"0">>, <<"a">>, <<"1">>, <<"2">>, <<"-","1">>}
Queries == [page : QueryPages, limit : QueryLimits]

RECURSIVE NewestFirst(_)
\* ORDER BY created_at DESC
NewestFirst(rows) ==
  IF rows = {} THEN <<>>
  ELSE LET r == CHOOSE x \in rows : \A y \in rows : y.createdAt <= x.createdAt
       IN  <<r>> \o NewestFirst(rows \ {r})

\* variant: the statement has no OFFSET clause
SelectPageNoOffset(tbl, limit, offset) ==
  IF limit < 0 \/ offset < 0
    THEN [threw |-> TRUE, urls |-> <<>>]
    ELSE LET all == NewestFirst(tbl)
             last == IF limit < Len(all) THEN limit ELSE Len(all)
         IN  [threw |-> FALSE, urls |-> SubSeq(all, 1, last)]

\* SELECT ... LIMIT limit OFFSET offset; a negative LIMIT or OFFSET is an
\* error of the statement
SelectPage(tbl, limit, offset) ==
  IF limit < 0 \/ offset < 0
    THEN [threw |-> TRUE, urls |-> <<>>]
    ELSE LET all == NewestFirst(tbl)
             last == IF offset + limit < Len(all) THEN offset + limit ELSE Len(all)
         IN  [threw |-> FALSE, urls |-> SubSeq(all, offset + 1, last)]

\* variant: Math.floor in the place of Math.ceil
FloorDiv(total, limit) == total \div limit

\* Math.ceil(total / limit) for a positive limit
CeilDiv(total, limit) == (total + limit - 1) \div limit

ListResponse(urls, page, limit, total) ==
  [op |-> "list", status |-> 200,
   body |-> [success |-> TRUE,
             data |-> [i \in DOMAIN urls |->
                         [id |-> urls[i].id,
                          originalUrl |-> urls[i].originalUrl,
                          shortCode |-> urls[i].shortCode,
                          createdAt |-> urls[i].createdAt,
                          clickCount |-> urls[i].clickCount,
                          shortUrl |-> ShortUrl(urls[i].shortCode)]],
             pagination |-> [page |-> page, limit |-> limit, total |-> total,
                             totalPages |-> CeilDiv(total, limit),
                             hasNext |-> page * limit < total,
                             hasPrev |-> page > 1]]]

\* GET /api/urls up to the result of SELECT COUNT(*)
GetAllUrls(p, query) ==
  /\ pc[p] = "idle"
  /\ step' = [op |-> "list", slot |-> p, at |-> "idle", query |-> query]
  /\ StoreUnchanged
  /\ Suspend(p, "page", [IdleLoc EXCEPT !.page = OrDefault(ParseInt(query.page), 1),
                                        !.limit = OrDefault(ParseInt(query.limit), 50),
                                        !.total = Cardinality(table)])

\* the SELECT of the page and the response
GetAllUrlsPage(p) ==
  /\ pc[p] = "page"
  /\ step' = [op |-> "list", slot |-> p, at |-> "page", limit |-> loc[p].limit,
              offset |-> (loc[p].page - 1) * loc[p].limit]
  /\ StoreUnchanged
  /\ LET page == loc[p].page
         limit == loc[p].limit
         sel == SelectPage(table, limit, (page - 1) * limit)
     IN  IF sel.threw
           THEN Reply(p, ErrorResponse("list", 500, "Internal server error"), 1)
           ELSE Reply(p, ListResponse(sel.urls, page, limit, loc[p].total), 1)

\* GET /api/urls next to the requests that write: two requests in flight
NextList ==
  \/ \E p \in Procs, query \in Queries : GetAllUrls(p, query)
  \/ \E p \in Procs : GetAllUrlsPage(p)
  \/ \E p \in Procs, body \in Bodies : CreateShortUrl(p, body)
  \/ \E p \in Procs : RetryGenerate(p)
  \/ \E p \in Procs : PersistUrl(p)
  \/ \E p \in Procs, shortCode \in ParamCodes : DeleteUrlHandler(p, shortCode)

SpecList == Init /\ [][NextList]_vars

-----------------------------------------------------------------------------
(* Store failures.  pool.connect or client.query rejects (connection or    *)
(* query error, timeout): the statement has no effect, the Database method *)
(* lets the error through and the handler's catch block answers.           *)

\* variant: the catch block sends the message of the error
CaughtWithMessage(op) == ErrorResponse(op, 500, "connect ECONNREFUSED 127.0.0.1:5432")

\* the catch block of a handler
Caught(op) == ErrorResponse(op, 500, "Internal server error")

\* the store operation that the handler of slot p awaits rejects
Throws(p, op, at) ==
  /\ step' = [op |-> op, slot |-> p, at |-> at, threw |-> TRUE]
  /\ StoreUnchanged
  /\ Reply(p, Caught(op), 1)

\* POST /api/shorten: the first lookup rejects
CreateShortUrlThrows(p, body) ==
  /\ pc[p] = "idle"
  /\ ValidateUrl(body) = ""
  /\ HasCustomCode(body) => ValidateCustomCode(body) = ""
  /\ Throws(p, "shorten", "idle")

\* POST /api/shorten: a later lookup of the loop, or createUrl, rejects
CreateShortUrlResumeThrows(p) ==
  /\ pc[p] \in {"gen", "insert"}
  /\ Throws(p, "shorten", pc[p])

\* GET /:shortCode: getUrlByShortCode rejects
RedirectToOriginalUrlThrows(p, shortCode) ==
  /\ pc[p] = "idle"
  /\ shortCode # <<>>
  /\ Throws(p, "redirect", "idle")

\* GET /:shortCode: incrementClickCount rejects
RedirectIncrementThrows(p) ==
  /\ pc[p] = "inc"
  /\ Throws(p, "redirect", "inc")

\* DELETE /api/urls/:shortCode: deleteUrl rejects
DeleteUrlHandlerThrows(p, shortCode) ==
  /\ pc[p] = "idle"
  /\ shortCode # <<>>
  /\ Throws(p, "delete", "idle")

\* GET /api/stats/:shortCode: getUrlByShortCode rejects
GetUrlStatsThrows(p, shortCode) ==
  /\ pc[p] = "idle"
  /\ shortCode # <<>>
  /\ Throws(p, "stats", "idle")

\* GET /api/urls: pool.connect or the COUNT rejects
GetAllUrlsThrows(p) ==
  /\ pc[p] = "idle"
  /\ Throws(p, "list", "idle")

\* GET /api/urls: the SELECT of the page rejects
GetAllUrlsPageThrows(p) ==
  /\ pc[p] = "page"
  /\ Throws(p, "list", "page")

\* the slot whose requests meet store failures: a failure has no effect on
\* the store, so one request at a time shows all there is
FailProcs == {"r1"}

NextFail ==
  \/ \E p \in FailProcs, body \in Bodies : CreateShortUrl(p, body)
  \/ \E p \in FailProcs : RetryGenerate(p)
  \/ \E p \in FailProcs : PersistUrl(p)
  \/ \E p \in FailProcs, shortCode \in ParamCodes : RedirectToOriginalUrl(p, shortCode)
  \/ \E p \in FailProcs : RedirectIncrement(p)
  \/ \E p \in FailProcs, shortCode \in ParamCodes : DeleteUrlHandler(p, shortCode)
  \/ \E p \in FailProcs, shortCode \in ParamCodes : GetUrlStats(p, shortCode)
  \/ \E p \in FailProcs, query \in Queries : GetAllUrls(p, query)
  \/ \E p \in FailProcs : GetAllUrlsPage(p)
  \/ \E p \in FailProcs, body \in Bodies : CreateShortUrlThrows(p, body)
  \/ \E p \in FailProcs : CreateShortUrlResumeThrows(p)
  \/ \E p \in FailProcs, shortCode \in ParamCodes : RedirectToOriginalUrlThrows(p, shortCode)
  \/ \E p \in FailProcs : RedirectIncrementThrows(p)
  \/ \E p \in FailProcs, shortCode \in ParamCodes : DeleteUrlHandlerThrows(p, shortCode)
  \/ \E p \in FailProcs, shortCode \in ParamCodes : GetUrlStatsThrows(p, shortCode)
  \/ \E p \in FailProcs : GetAllUrlsThrows(p)
  \/ \E p \in FailProcs : GetAllUrlsPageThrows(p)

SpecFail == Init /\ [][NextFail]_vars

-----------------------------------------------------------------------------
(* The utility functions on their own: each action applies one of them to  *)
(* an argument and records the result.                                     *)

MaxCodeLen == 22   \* length of the longest custom code tried
MaxGenLen == 8     \* largest size generate is called with

ToUpperChar(ch) ==
  IF ch \in Range(LowerSeq)
    THEN UpperSeq[CHOOSE i \in DOMAIN LowerSeq : LowerSeq[i] = ch]
    ELSE ch

Repeat(ch, n) == [i \in 1..n |-> ch]

\* every string of up to three of these characters
CodeChars == {"a", "Z", "5", "-", "_", " "}
ShortInputs == UNION {[1..n -> CodeChars] : n \in 0..3}

\* the reserved words in three spellings, and inside longer codes
ReservedInputs ==
  UNION { { w,
            [i \in DOMAIN w |-> ToUpperChar(w[i])],
            [w EXCEPT ![1] = ToUpperChar(w[1])],
            w \o <<"t","e","s","t">>,
            <<"m","y">> \o w,
            w \o <<"-">> } : w \in reservedWords }

\* codes of every length, alphanumeric and with one other character
LengthInputs ==
  {Repeat("a", n) : n \in 0..MaxCodeLen}
    \cup {Repeat("a", n - 1) \o <<"_">> : n \in 1..MaxCodeLen}

CodeInputs == ShortInputs \cup ReservedInputs \cup LengthInputs \cup SampleCodes

UrlHosts ==
  { <<>>, HostExample, <<"www","example","com">>, <<"intranet">>,
    <<"localhost">>, <<"127","0","0","1">>, <<"127","0","0","8">>,
    <<"192","168","1","1">>, <<"192","169","1","1">>,
    <<"10","0","0","1">>, <<"100","0","0","1">>, <<"10","example","com">>,
    <<"172","16","0","1">>, <<"172","example","com">>, <<"8","8","8","8">>,
    <<"10","0">> }

UrlInputs ==
  {NoUrl} \cup [scheme : {"", "ftp", "http", "https"},
                host : UrlHosts,
                path : {<<>>, <<"/">>, <<"/","a">>}]

\* URLs whose path ends in no slash, in one and in two
SlashInputs ==
  [scheme : {"", "ftp", "http", "https"},
   host : {<<>>, HostExample, <<"localhost">>},
   path : {<<>>, <<"/">>, <<"/","/">>, <<"/","a">>, <<"/","a","/">>,
           <<"/","a","/","/">>, <<"/","/","a">>}]

ApplyIsValidCustomCode(code) ==
  /\ fn' = [name |-> "isValidCustomCode", arg |-> code,
            out |-> IsValidCustomCode(code)]
  /\ UNCHANGED <<table, nextId, clock, pc, loc, step, res, dbOps, incCalls,
                 redirects, checkedOut, call, rlStore, nowMs, admits, rl, schema>>

ApplyIsValidUrl(url) ==
  /\ fn' = [name |-> "isValidUrl", arg |-> url, out |-> IsValidUrl(url)]
  /\ UNCHANGED <<table, nextId, clock, pc, loc, step, res, dbOps, incCalls,
                 redirects, checkedOut, call, rlStore, nowMs, admits, rl, schema>>

ApplyGenerate(length) ==
  /\ \E code \in Generate(length) :
       fn' = [name |-> "generate", arg |-> length, out |-> code]
  /\ UNCHANGED <<table, nextId, clock, pc, loc, step, res, dbOps, incCalls,
                 redirects, checkedOut, call, rlStore, nowMs, admits, rl, schema>>

ApplyNormalizeUrl(url) ==
  /\ fn' = [name |-> "normalizeUrl", arg |-> url, out |-> NormalizeUrl(url)]
  /\ UNCHANGED <<table, nextId, clock, pc, loc, step, res, dbOps, incCalls,
                 redirects, checkedOut, call, rlStore, nowMs, admits, rl, schema>>

\* generate() with the default parameter
ApplyGenerateDefault ==
  /\ \E code \in Generate(DEFAULT_LENGTH) :
       fn' = [name |-> "generate()", out |-> code]
  /\ UNCHANGED <<table, nextId, clock, pc, loc, step, res, dbOps, incCalls,
                 redirects, checkedOut, call, rlStore, nowMs, admits, rl, schema>>

NextPure ==
  \/ \E code \in CodeInputs : ApplyIsValidCustomCode(code)
  \/ \E url \in UrlInputs : ApplyIsValidUrl(url)
  \/ \E length \in 0..MaxGenLen : ApplyGenerate(length)
  \/ \E url \in UrlInputs \cup SlashInputs : ApplyNormalizeUrl(url)
  \/ ApplyGenerateDefault

SpecPure == Init /\ [][NextPure]_vars

-----------------------------------------------------------------------------
(* The rate limiter.  SimpleRateLimiter.middleware is synchronous: one     *)
(* request is one step.  The class is checked for a short window and a     *)
(* small limit, the two parameters of its constructor; time moves in       *)
(* steps of TickMs milliseconds.                                           *)

windowMs == 1500       \* constructor parameter; 15 * 60 * 1000 for /api
maxRequests == 2       \* constructor parameter; 100 for /api
MaxNow == 4000         \* the time up to which requests are followed
TickMs == 500          \* Date.now() advances by this much between requests

\* variant: a new window ends at once
NewWindowNoLength(t) == [count |-> 1, resetTime |-> t]

\* { count: 1, resetTime: now + this.windowMs }
NewWindow(t) == [count |-> 1, resetTime |-> t + windowMs]

\* now > clientData.resetTime
Expired(clientData, t) == t > clientData.resetTime

\* variant: one request more than maxRequests gets through
OverLimitStrict(clientData) == clientData.count > maxRequests

\* clientData.count >= this.maxRequests
OverLimit(clientData) == clientData.count >= maxRequests

\* variant: Math.floor
RetryAfterFloor(clientData, t) == (clientData.resetTime - t) \div 1000

\* Math.ceil((clientData.resetTime - now) / 1000)
RetryAfter(clientData, t) == CeilDiv(clientData.resetTime - t, 1000)

\* variant: the entry is written under every key of the store
PutEntryAll(store, clientId, entry) ==
  [k \in DOMAIN store \cup {clientId} |-> entry]

\* this.store[clientId] = entry
PutEntry(store, clientId, entry) ==
  [k \in DOMAIN store \cup {clientId} |->
     IF k = clientId THEN entry ELSE store[k]]

TooManyRequests(retryAfter) ==
  [status |-> 429,
   body |-> [success |-> FALSE,
             error |-> "Too many requests. Please try again later.",
             retryAfter |-> retryAfter]]

\* next() was called: the response is the next handler's
PassedOn == [status |-> 0]

\* the middleware function for a request of clientId at time t
Middleware(store, clientId, t) ==
  IF clientId \notin DOMAIN store
    THEN [store |-> PutEntry(store, clientId, NewWindow(t)),
          next |-> TRUE, response |-> PassedOn]
  ELSE LET clientData == store[clientId] IN
    IF Expired(clientData, t)
      THEN [store |-> PutEntry(store, clientId, NewWindow(t)),
            next |-> TRUE, response |-> PassedOn]
    ELSE IF OverLimit(clientData)
      THEN [store |-> store, next |-> FALSE,
            response |-> TooManyRequests(RetryAfter(clientData, t))]
    ELSE [store |-> PutEntry(store, clientId,
                             [clientData EXCEPT !.count = clientData.count + 1]),
          next |-> TRUE, response |-> PassedOn]

\* a request of client key clientId to a route under /api
LimiterRequest(clientId) ==
  /\ LET m == Middleware(rlStore, clientId, nowMs) IN
       /\ rlStore' = m.store
       /\ rl' = [client |-> clientId, at |-> nowMs, next |-> m.next,
                 response |-> m.response]
       /\ admits' = IF m.next
                      THEN [admits EXCEPT ![clientId] = Append(@, nowMs)]
                      ELSE admits
  /\ UNCHANGED <<table, nextId, clock, pc, loc, step, res, dbOps, incCalls,
                 redirects, checkedOut, call, fn, nowMs, schema>>

\* time passes
LimiterTick ==
  /\ nowMs + TickMs <= MaxNow
  /\ nowMs' = nowMs + TickMs
  /\ admits' = [k \in Clients |->
                  SelectSeq(admits[k], LAMBDA t : t >= nowMs + TickMs - windowMs)]
  /\ UNCHANGED <<table, nextId, clock, pc, loc, step, res, dbOps, incCalls,
                 redirects, checkedOut, call, fn, rlStore, rl, schema>>

NextLimiter ==
  \/ \E clientId \in Clients : LimiterRequest(clientId)
  \/ LimiterTick

SpecLimiter == Init /\ [][NextLimiter]_vars

-----------------------------------------------------------------------------
(* Properties.  In an action formula step' names the handler step the      *)
(* transition is: unprimed variables are the state it ran in, primed ones  *)
(* the state it left.                                                      *)

\* the transition is the step of a POST /api/shorten handler resumed at `at`
IsShortenStep(at) == step'.op = "shorten" /\ step'.at = at

\* the transition is the step of a GET /:shortCode handler resumed at `at`
IsRedirectStep(at) == step'.op = "redirect" /\ step'.at = at

UrlPasses(body) == body.url # NoUrl /\ IsValidUrl(body.url)

CodesTaken == {r.shortCode : r \in table}

\* C1: in every reachable state no two rows have the same shortCode, and an
\* INSERT whose shortCode is already in the table is rejected by the table
\* itself: the table is left as it was and the request is not answered 201.
C1_ShortCodeUnique ==
  /\ [](\A r1, r2 \in table : r1.shortCode = r2.shortCode => r1 = r2)
  /\ [][(IsShortenStep("insert") /\ loc[step'.slot].shortCode \in CodesTaken)
          => (table' = table /\ res'.status # 201)]_vars

\* C1 witness: an INSERT has just been rejected while the table holds a row.
C1_Witness ==
  /\ step.op = "shorten" /\ step.at = "insert"
  /\ res.status = 500 /\ res.body.error = "Internal server error"
  /\ table # {}

\* C2: a shorten request whose INSERT is rejected by the uniqueness
\* constraint is answered 409.
C2_RejectedInsertIsConflict ==
  [][(IsShortenStep("insert") /\ loc[step'.slot].shortCode \in CodesTaken)
       => res'.status = 409]_vars

\* C3: the click count of every row equals the number of
\* incrementClickCount calls made for its code since the row was inserted,
\* whatever the interleaving; a call returns the row as its own increment
\* left it and changes no other row; for a code without a row it returns
\* null and changes nothing.
C3_IncrementNeverLost ==
  /\ \A r \in table : r.clickCount = incCalls[r.shortCode]
  /\ \A c \in ParamCodes :
       LET upd == IncrementClickCount(table, c)
           hit == {r \in table : r.shortCode = c}
       IN  IF hit = {}
             THEN upd.row = Null /\ upd.table = table
             ELSE /\ upd.row \in upd.table
                  /\ \E r \in hit :
                       upd.row = [r EXCEPT !.clickCount = r.clickCount + 1]
                  /\ upd.table \ {upd.row} = table \ hit

\* C3 witness: of two redirects that read the same row, one has run its
\* increment and the other has not yet.
C3_Witness ==
  /\ step.op = "redirect" /\ step.at = "inc"
  /\ \E p \in Procs : \E r \in table :
       /\ pc[p] = "inc"
       /\ r.shortCode = loc[p].shortCode
       /\ r.id = loc[p].urlRecord.id
       /\ r.clickCount > loc[p].urlRecord.clickCount

\* C4: a shorten request with a valid url and a valid custom code that the
\* lookup finds in the table is answered 409 and the table, the found row
\* included, stays exactly as it was.
C4_ExistingCodeConflict ==
  [][( /\ IsShortenStep("idle")
       /\ UrlPasses(step'.body)
       /\ Truthy(step'.body.customCode)
       /\ IsValidCustomCode(step'.body.customCode)
       /\ step'.body.customCode \in CodesTaken )
     => (res'.op = "shorten" /\ res'.status = 409 /\ table' = table) ]_vars

\* C4 witness: a conflict has just been answered for a code in the table.
C4_Witness ==
  /\ step.op = "shorten" /\ step.at = "idle"
  /\ res.status = 409
  /\ step.body.customCode \in CodesTaken

\* C5: the step of a shorten request that answers 201 adds exactly one row,
\* the one the response describes, and every other step of a shorten
\* request (a lookup, or a step answering 400, 409 or 500) leaves the table
\* as it was.
C5_OneInsertOrNone ==
  [][step'.op = "shorten" =>
       IF res'.status = 201
         THEN \E row \in table' \ table :
                /\ table' = table \cup {row}
                /\ row.shortCode = res'.body.data.shortCode
                /\ row.id = res'.body.data.id
         ELSE table' = table ]_vars

\* C5 witness: a second row has just been inserted and answered 201.
C5_Witness ==
  /\ step.op = "shorten" /\ res.status = 201
  /\ Cardinality(table) = 2

\* the transition is a pass of the generation loop: the first pass of a
\* request that passed validation and carries no custom code, or a later one
IsGenerationStep ==
  \/ IsShortenStep("gen")
  \/ /\ IsShortenStep("idle")
     /\ UrlPasses(step'.body)
     /\ step'.body.customCode = Undefined

\* lookups the loop had made before the transition
PassesMade == IF step'.at = "gen" THEN loc[step'.slot].attempts ELSE 0

\* C6: a request without custom code makes at most 10 generate-and-lookup
\* passes.  A pass whose code the lookup does not find ends the loop with
\* that code to be inserted, the 10th pass included; a pass whose code is
\* found leads to the next pass when fewer than 10 were made, and to a 500
\* answer with the table untouched when it was the 10th.
C6_BoundedGeneration ==
  /\ [](\A p \in Procs :
          /\ pc[p] = "gen" => loc[p].attempts \in 1..9
          /\ pc[p] = "insert" => loc[p].attempts \in 0..9)
  /\ [][IsGenerationStep =>
          LET p == step'.slot IN
            /\ table' = table
            /\ pc'[p] = "insert" =>
                 /\ loc'[p].shortCode \in Generate(6) \ CodesTaken
                 /\ loc'[p].attempts = PassesMade
            /\ pc'[p] = "gen" =>
                 /\ PassesMade + 1 < 10
                 /\ loc'[p].attempts = PassesMade + 1
                 /\ Generate(6) \cap CodesTaken # {}
            /\ pc'[p] = "idle" =>
                 /\ PassesMade + 1 = 10
                 /\ res'.op = "shorten" /\ res'.status = 500
                 /\ Generate(6) \cap CodesTaken # {}
            /\ Generate(6) \subseteq CodesTaken => pc'[p] # "insert"
            /\ Generate(6) \cap CodesTaken = {} => pc'[p] = "insert" ]_vars

\* C6 witness: the loop was left on its 10th pass with a free code.
C6_Witness ==
  /\ step.op = "shorten" /\ step.at = "gen"
  /\ pc[step.slot] = "insert"
  /\ loc[step.slot].attempts = 9
  /\ loc[step.slot].shortCode \notin CodesTaken

\* C7: a shorten request whose url is missing or fails isValidUrl is
\* answered 400 in its first step, in which no store operation is executed
\* and the store is left as it was, whatever customCode the body carries.
C7_InvalidUrlHalts ==
  [][(IsShortenStep("idle") /\ ~UrlPasses(step'.body))
     => /\ res'.op = "shorten" /\ res'.status = 400
        /\ res'.body.error \in
             {"URL is required",
              "Invalid URL format. Please provide a valid HTTP/HTTPS URL"}
        /\ pc'[step'.slot] = "idle"
        /\ dbOps' = 0
        /\ table' = table /\ nextId' = nextId ]_vars

\* C7 witness: a url that is present but invalid has just been refused, in
\* a request that carries a valid custom code.
C7_Witness ==
  /\ step.op = "shorten" /\ step.at = "idle"
  /\ step.body.url # NoUrl /\ step.body.customCode = CodeA
  /\ res.status = 400
  /\ res.body.error = "Invalid URL format. Please provide a valid HTTP/HTTPS URL"
  /\ dbOps = 0

\* C8 as stated: a valid url with a customCode of any value in the body, if
\* that value fails isValidCustomCode, is answered 400 and no code is
\* generated.
C8_AnySuppliedCode ==
  [][( /\ IsShortenStep("idle")
       /\ UrlPasses(step'.body)
       /\ step'.body.customCode # Undefined
       /\ ~IsValidCustomCode(step'.body.customCode) )
     => (res'.status = 400 /\ pc'[step'.slot] = "idle") ]_vars

\* C8 amended: a valid url with a non-empty customCode that fails
\* isValidCustomCode is answered 400 with the format error, no store
\* operation is executed, no code is generated and no row is created; an
\* empty customCode is taken as none and the request goes on to generate one.
C8_NonEmptyInvalidCode ==
  [][(IsShortenStep("idle") /\ UrlPasses(step'.body))
     => LET p == step'.slot
            customCode == step'.body.customCode
        IN  /\ (customCode \notin {Undefined, <<>>} /\ ~IsValidCustomCode(customCode))
               => /\ res'.op = "shorten" /\ res'.status = 400
                  /\ res'.body.error = "Invalid custom code. Must be 3-20 alphanumeric characters and not a reserved word"
                  /\ pc'[p] = "idle"
                  /\ dbOps' = 0
                  /\ table' = table
            /\ customCode = <<>>
               => /\ pc'[p] \in {"insert", "gen"}
                  /\ pc'[p] = "insert" => loc'[p].shortCode \in Generate(6) ]_vars

\* C8 witness: a non-empty invalid custom code has just been refused.
C8_Witness ==
  /\ step.op = "shorten" /\ step.at = "idle"
  /\ step.body.customCode = <<"A","P","I">>
  /\ res.status = 400
  /\ res.body.error = "Invalid custom code. Must be 3-20 alphanumeric characters and not a reserved word"

RowById(tbl, id) == FirstRow({r \in tbl : r.id = id})

\* C11: the click count of a row is 0 in the state its shorten request
\* inserted it, it is never negative, it never goes down from one state to
\* the next while the row exists, and the only step that changes it is the
\* increment of a redirect.
C11_ClickCountMonotone ==
  /\ [](\A r \in table : r.clickCount >= 0)
  /\ [][\A r2 \in table' :
          LET r1 == RowById(table, r2.id) IN
            IF r1 = Null
              THEN r2.clickCount = 0 /\ IsShortenStep("insert")
              ELSE /\ r2.clickCount >= r1.clickCount
                   /\ r2.clickCount # r1.clickCount => IsRedirectStep("inc") ]_vars

\* C11 witness: a row has been counted up to 2 while a row inserted after
\* it still has count 0.
C11_Witness ==
  \E r1, r2 \in table : r1.clickCount = 2 /\ r2.clickCount = 0 /\ r2.id > r1.id

\* C12: from its insertion to its deletion a row keeps its id, originalUrl,
\* shortCode and createdAt.  Across every transition a row of the table is
\* still there unchanged, or was removed by a delete request for its code,
\* or is there with clickCount one higher and every other field as before,
\* and that only across the increment of a redirect; no id is held by two
\* rows.
C12_FieldsImmutable ==
  /\ [](\A r1, r2 \in table : r1.id = r2.id => r1 = r2)
  /\ [][\A r \in table :
          \/ r \in table'
          \/ /\ RowById(table', r.id) = Null
             /\ step'.op = "delete" /\ step'.shortCode = r.shortCode
          \/ /\ IsRedirectStep("inc")
             /\ RowById(table', r.id) =
                  [id |-> r.id, originalUrl |-> r.originalUrl,
                   shortCode |-> r.shortCode, createdAt |-> r.createdAt,
                   clickCount |-> r.clickCount + 1] ]_vars

\* C12 witness: the second row inserted has just been counted up a second
\* time, its other fields as its INSERT set them.
C12_Witness ==
  /\ step.op = "redirect" /\ step.at = "inc"
  /\ \E r \in table : r.id = 2 /\ r.clickCount = 2 /\ r.createdAt = 1

\* C13: deleteUrl(code) returns true exactly when the table held a row for
\* the code; the table it leaves has no row for the code, so that
\* getUrlByShortCode(code) returns null, and for a code without a row it is
\* the table as it was.  DELETE /api/urls/:code answers 200 in the first
\* case and 404 in the second, and a code without a row gets one again only
\* by the INSERT of a shorten request answered 201 for it.
C13_DeleteExactlyExisting ==
  /\ [](\A c \in ParamCodes \ {<<>>} :
          LET del == DeleteUrl(table, c) IN
            /\ del.deleted = (c \in CodesTaken)
            /\ GetUrlByShortCode(del.table, c) = Null
            /\ c \notin CodesTaken => del.table = table)
  /\ [][(step'.op = "delete" /\ step'.shortCode # <<>>) =>
          IF step'.shortCode \in CodesTaken
            THEN /\ res'.op = "delete" /\ res'.status = 200
                 /\ step'.shortCode \notin CodesTaken'
                 /\ GetUrlByShortCode(table', step'.shortCode) = Null
            ELSE /\ res'.op = "delete" /\ res'.status = 404
                 /\ table' = table ]_vars
  /\ [][\A c \in CodesTaken' \ CodesTaken :
          /\ IsShortenStep("insert")
          /\ res'.status = 201 /\ res'.body.data.shortCode = c ]_vars

\* C13 witness: a code has just been deleted and answered 200 while the
\* row of another code stays in the table.
C13_Witness ==
  /\ step.op = "delete" /\ res.status = 200
  /\ step.shortCode \notin CodesTaken
  /\ table # {}

\* slots that are inside a Database method with a client checked out
HoldingClient == {p \in Procs : call[p].at = "query"}

\* C14: the clients checked out of the pool are those of the Database
\* methods in flight, healthCheck included, whether their queries succeeded
\* or failed: when no method is in flight none is checked out.
C14_AllReleased == checkedOut = Cardinality(HoldingClient)

\* the transition is a handler step whose store operation rejected
IsThrowStep == "threw" \in DOMAIN step'

\* C15: when the store operation a shorten, redirect, list, stats or delete
\* handler awaits fails, that step ends the request: the handler runs no
\* further store operation, the store is as it was, and the one response is
\* 500 with exactly the body {success: false, error: 'Internal server
\* error'}.  The same holds for a statement the store itself rejects, the
\* page SELECT with a negative offset.
C15_StoreFailureIsGeneric500 ==
  [][( \/ IsThrowStep
       \/ /\ step'.op = "list" /\ step'.at = "page"
          /\ (loc[step'.slot].page - 1) * loc[step'.slot].limit < 0 )
     => /\ res' = [op |-> step'.op, status |-> 500,
                   body |-> [success |-> FALSE, error |-> "Internal server error"]]
        /\ pc'[step'.slot] = "idle"
        /\ dbOps' = 1
        /\ table' = table ]_vars

\* C15 witness: the SELECT of a list request has just failed, after its
\* COUNT had succeeded on a table that holds a row.
C15_Witness ==
  /\ "threw" \in DOMAIN step
  /\ step.op = "list" /\ step.at = "page"
  /\ res.status = 500
  /\ table # {}

\* the short code the transition's request is addressed to
AddressedCode ==
  IF step'.op = "shorten"
    THEN IF step'.at = "idle" THEN step'.body.customCode
                              ELSE loc[step'.slot].shortCode
    ELSE IF step'.at = "idle" THEN step'.shortCode
                              ELSE loc[step'.slot].shortCode

\* the transition is a step of a request addressed to one short code: a
\* redirect, stats or delete, or a shorten with a custom code, or the INSERT
\* of a shorten
IsAddressedStep ==
  \/ step'.op \in {"redirect", "stats", "delete"}
  \/ IsShortenStep("idle") /\ Truthy(step'.body.customCode)
  \/ IsShortenStep("insert")

OtherRows(tbl, shortCode) == {r \in tbl : r.shortCode # shortCode}

\* C16: a step of a request addressed to code A leaves every row of another
\* code as it was.  What the store operations for A return is what they
\* return on the rows of A alone, whatever other rows the table holds, and
\* the first step of a request for A is decided by whether A has a row:
\* stats and delete answer 200 with one and 404 without, a redirect goes on
\* to its increment with one and answers 404 without, a shorten with a
\* valid url and valid custom code A answers 409 with one and goes on to its
\* INSERT without.
C16_CodesIndependent ==
  /\ [](\A c \in ParamCodes \ {<<>>} :
          LET own == RowsOf(table, c)
              url == [originalUrl |-> NoUrl, shortCode |-> c, clickCount |-> 0]
          IN  /\ GetUrlByShortCode(table, c) = GetUrlByShortCode(own, c)
              /\ DeleteUrl(table, c).deleted = DeleteUrl(own, c).deleted
              /\ DeleteUrl(table, c).table = OtherRows(table, c)
              /\ IncrementClickCount(table, c).row = IncrementClickCount(own, c).row
              /\ OtherRows(IncrementClickCount(table, c).table, c) = OtherRows(table, c)
              /\ CreateUrl(table, nextId, clock, url).threw
                   = CreateUrl(own, nextId, clock, url).threw
              /\ CreateUrl(table, nextId, clock, url).row
                   = CreateUrl(own, nextId, clock, url).row
              /\ OtherRows(CreateUrl(table, nextId, clock, url).table, c)
                   = OtherRows(table, c))
  /\ [][IsAddressedStep =>
          OtherRows(table', AddressedCode) = OtherRows(table, AddressedCode)]_vars
  /\ [][(IsAddressedStep /\ step'.at = "idle" /\ AddressedCode # <<>>) =>
          LET p == step'.slot
              taken == AddressedCode \in CodesTaken
          IN  /\ step'.op \in {"stats", "delete"} =>
                   res'.status = IF taken THEN 200 ELSE 404
              /\ step'.op = "redirect" =>
                   IF taken THEN pc'[p] = "inc" ELSE res'.status = 404
              /\ ( /\ step'.op = "shorten"
                   /\ UrlPasses(step'.body)
                   /\ IsValidCustomCode(AddressedCode) ) =>
                   IF taken THEN res'.status = 409 ELSE pc'[p] = "insert" ]_vars

\* C16 witness: a redirect has just counted up the row of its code while
\* the table holds the row of another code, never counted.
C16_Witness ==
  /\ step.op = "redirect" /\ step.at = "inc" /\ res.status = 301
  /\ \E r1, r2 \in table :
       /\ r1.shortCode = res.shortCode /\ r1.clickCount > 0
       /\ r2.shortCode # res.shortCode /\ r2.clickCount = 0

\* C17: a shorten request that passed validation carries normalizeUrl(url)
\* and, when the body has a (non-empty) custom code, that code to its
\* INSERT, and otherwise a generated code the lookup did not find; later
\* passes of the loop keep the url.  The INSERT answered 201 adds the row
\* [id and createdAt as the store assigns them, that url, that code,
\* clickCount 0], and the response carries the row's id, originalUrl,
\* shortCode and createdAt and shortUrl = <base url>/<shortCode>.
C17_InsertedRecord ==
  /\ [][IsShortenStep("idle") =>
          LET p == step'.slot
              body == step'.body
          IN  pc'[p] \in {"gen", "insert"} =>
                /\ loc'[p].normalizedUrl = NormalizeUrl(body.url)
                /\ (pc'[p] = "insert" /\ Truthy(body.customCode))
                     => loc'[p].shortCode = body.customCode
                /\ (pc'[p] = "insert" /\ ~Truthy(body.customCode))
                     => loc'[p].shortCode \in Generate(6) \ CodesTaken ]_vars
  /\ [][IsShortenStep("gen") =>
          LET p == step'.slot
          IN  pc'[p] \in {"gen", "insert"} =>
                /\ loc'[p].normalizedUrl = loc[p].normalizedUrl
                /\ pc'[p] = "insert" =>
                     loc'[p].shortCode \in Generate(6) \ CodesTaken ]_vars
  /\ [][(IsShortenStep("insert") /\ res'.status = 201) =>
          LET p == step'.slot
              row == [id |-> nextId, originalUrl |-> loc[p].normalizedUrl,
                      shortCode |-> loc[p].shortCode, createdAt |-> clock,
                      clickCount |-> 0]
          IN  /\ table' = table \cup {row}
              /\ row \notin table
              /\ res'.body.success
              /\ res'.body.data =
                   [id |-> row.id, originalUrl |-> row.originalUrl,
                    shortCode |-> row.shortCode,
                    shortUrl |-> <<BaseUrl, "/", row.shortCode>>,
                    createdAt |-> row.createdAt] ]_vars

\* C17 witness: a request with a custom code and a url that normalizeUrl
\* changes has just been answered 201 with id 2.
C17_Witness ==
  /\ step.op = "shorten" /\ step.at = "insert"
  /\ res.status = 201
  /\ res.body.data.id = 2
  /\ res.body.data.shortCode = CodeA
  /\ res.body.data.originalUrl = [scheme |-> "https", host |-> HostExample, path |-> <<>>]

\* C18: isValidCustomCode(code) is true exactly when code has 3 to 20
\* characters, all of them among A-Z, a-z, 0-9, and its lowercased form is
\* not one of api, admin, www, app, dashboard, health, status.
C18_CustomCodeRule ==
  fn.name = "isValidCustomCode" =>
    ( fn.out <=>
        /\ Len(fn.arg) >= 3 /\ Len(fn.arg) <= 20
        /\ \A i \in DOMAIN fn.arg :
             fn.arg[i] \in Range(UpperSeq) \cup Range(LowerSeq) \cup Range(DigitSeq)
        /\ ToLowerCase(fn.arg) \notin
             { <<"a","p","i">>, <<"a","d","m","i","n">>, <<"w","w","w">>,
               <<"a","p","p">>, <<"d","a","s","h","b","o","a","r","d">>,
               <<"h","e","a","l","t","h">>, <<"s","t","a","t","u","s">> } )

\* C18 witness: apptest, which contains the reserved word app, is accepted.
C18_Witness ==
  /\ fn.name = "isValidCustomCode"
  /\ fn.arg = <<"a","p","p","t","e","s","t">>
  /\ fn.out

\* the host is localhost or 127.0.0.1 or starts with 192.168., 10. or 172.
IsPrivateHost(h) ==
  \/ h \in {<<"localhost">>, <<"127","0","0","1">>}
  \/ Len(h) > 2 /\ h[1] = "192" /\ h[2] = "168"
  \/ Len(h) > 1 /\ h[1] \in {"10", "172"}

\* C19 as stated: isValidUrl is true exactly for the absolute URLs with
\* scheme http or https whose host is not one of the private ones.
C19_EveryPublicHttpUrl ==
  fn.name = "isValidUrl" =>
    ( fn.out <=>
        /\ fn.arg.scheme \in {"http", "https"}
        /\ fn.arg.host # <<>>
        /\ ~IsPrivateHost(fn.arg.host) )

\* C19 amended: isValidUrl is true exactly for the strings that pass
\* validator.isURL's format check (scheme http or https present, host an IP
\* address or a domain name with a top-level domain) and whose host is not
\* one of the private ones; for every other input, the empty one and those
\* without scheme or host included, it returns false.
C19_FormatCheckedPublicUrl ==
  fn.name = "isValidUrl" =>
    /\ fn.out \in BOOLEAN
    /\ fn.out <=>
         /\ fn.arg.scheme \in {"http", "https"}
         /\ IsIPv4(fn.arg.host) \/ IsFQDN(fn.arg.host)
         /\ ~IsPrivateHost(fn.arg.host)

\* C19 witness: http://intranet/, an absolute http URL whose host is not
\* private, is refused.
C19_Witness ==
  /\ fn.name = "isValidUrl"
  /\ fn.arg = [scheme |-> "http", host |-> <<"intranet">>, path |-> <<"/">>]
  /\ ~fn.out

\* C20: generate(n) returns a string of exactly n characters, each of them
\* among A-Z, a-z, 0-9, '-' and '_', for every n from 0 on (the empty string
\* for 0), and generate() returns a string of 6 characters.
C20_GeneratedLength ==
  /\ fn.name = "generate" =>
       /\ Len(fn.out) = fn.arg
       /\ fn.arg = 0 => fn.out = <<>>
       /\ \A i \in DOMAIN fn.out :
            fn.out[i] \in Range(UpperSeq) \cup Range(LowerSeq) \cup Range(DigitSeq)
                            \cup {"-", "_"}
  /\ fn.name = "generate()" =>
       /\ Len(fn.out) = 6
       /\ \A i \in DOMAIN fn.out :
            fn.out[i] \in Range(UpperSeq) \cup Range(LowerSeq) \cup Range(DigitSeq)
                            \cup {"-", "_"}

\* C20 witness: generate(0) has returned the empty string.
C20_Witness == fn.name = "generate" /\ fn.arg = 0 /\ fn.out = <<>>

\* rows of tbl that are newer than row r
NewerThan(tbl, r) == {x \in tbl : x.createdAt > r.createdAt}

\* urls is the page (limit, offset) of tbl in newest-first order: its i-th
\* row is the row of tbl with offset + i - 1 newer rows, and it ends with
\* limit rows or with the oldest row of tbl
IsPageOf(urls, tbl, limit, offset) ==
  /\ \A i \in DOMAIN urls :
       /\ urls[i] \in tbl
       /\ Cardinality(NewerThan(tbl, urls[i])) = offset + i - 1
  /\ Len(urls) <= limit
  /\ Len(urls) < limit => offset + Len(urls) >= Cardinality(tbl)

\* C21: on a table that no one modifies, the page SELECT for a limit and
\* offset that are not negative returns at most limit rows, newest first,
\* starting after the offset newest rows, and all rows when the limit
\* covers the table; the list response of a request that ran alone carries
\* such a page for offset (page - 1) * limit, with total the number of rows
\* in the table.
C21_PageNewestFirst ==
  /\ \A limit \in 0..3, offset \in 0..3 :
       LET sel == SelectPage(table, limit, offset) IN
         /\ ~sel.threw
         /\ IsPageOf(sel.urls, table, limit, offset)
         /\ (offset = 0 /\ limit >= Cardinality(table))
              => {sel.urls[i] : i \in DOMAIN sel.urls} = table
  /\ (step.op = "list" /\ res.status = 200) =>
       LET pg == res.body.pagination
           data == res.body.data
           urls == [i \in DOMAIN data |->
                      [id |-> data[i].id, originalUrl |-> data[i].originalUrl,
                       shortCode |-> data[i].shortCode,
                       createdAt |-> data[i].createdAt,
                       clickCount |-> data[i].clickCount]]
       IN  /\ IsPageOf(urls, table, pg.limit, (pg.page - 1) * pg.limit)
           /\ pg.total = Cardinality(table)

\* C21 witness: page 2 of a list with limit 1 carries the older of the two
\* rows of the table.
C21_Witness ==
  /\ step.op = "list" /\ res.status = 200
  /\ res.body.pagination.page = 2 /\ res.body.pagination.limit = 1
  /\ Cardinality(table) = 2
  /\ Len(res.body.data) = 1
  /\ \A r \in table : r.createdAt >= res.body.data[1].createdAt

\* the transition is a request handled by the rate limiter, of client
\* rl'.client at time nowMs
IsLimiterRequest == nowMs' = nowMs /\ rl'.client \in Clients

\* the request arrives in a window of its client that is still open
InOpenWindow(store, clientId, t) ==
  clientId \in DOMAIN store /\ t <= store[clientId].resetTime

\* requests of the client admitted since its window (ending at resetTime)
\* started
AdmittedInWindow(log, resetTime) ==
  Len(SelectSeq(log, LAMBDA t : t >= resetTime - windowMs))

\* C22: per client key, the requests passed on to the next handler since
\* the client's window started are at most maxRequests.  A request that
\* arrives in an open window in which maxRequests were passed on already is
\* answered 429 with retryAfter the time left to resetTime in seconds,
\* rounded up, and is not passed on; one that arrives when fewer were
\* passed on is passed on.
C22_AtMostMaxPerWindow ==
  /\ [](\A c \in DOMAIN rlStore :
          AdmittedInWindow(admits[c], rlStore[c].resetTime) <= maxRequests)
  /\ [][(IsLimiterRequest /\ InOpenWindow(rlStore, rl'.client, nowMs)) =>
          LET c == rl'.client
              left == rlStore[c].resetTime - nowMs
              seen == AdmittedInWindow(admits[c], rlStore[c].resetTime)
          IN  IF seen >= maxRequests
                THEN /\ ~rl'.next
                     /\ rl'.response.status = 429
                     /\ rl'.response.body.retryAfter * 1000 >= left
                     /\ (rl'.response.body.retryAfter - 1) * 1000 < left
                     /\ admits' = admits
                ELSE /\ rl'.next
                     /\ rl'.response.status # 429 ]_vars

\* C22 witness: a request was just rejected 1500 ms before its window
\* ends, with retryAfter 2.
C22_Witness ==
  /\ rl.client \in Clients /\ ~rl.next
  /\ rl.response.status = 429
  /\ rl.response.body.retryAfter = 2
  /\ rlStore[rl.client].resetTime - rl.at > 1000

\* C23 as stated: for each client, the requests admitted in any interval
\* of windowMs milliseconds are at most maxRequests.
C23_AnyIntervalAtMostMax ==
  \A c \in Clients : Len(admits[c]) <= maxRequests

\* C23 amended: for each client, the requests admitted in one window, from
\* its first request to resetTime, are at most maxRequests; an interval of
\* windowMs milliseconds can take in the end of one window and the start
\* of the next, and the requests admitted in it are at most
\* 2 * maxRequests - 1.
C23_PerWindowAtMostMax ==
  /\ \A c \in Clients : Len(admits[c]) <= 2 * maxRequests - 1
  /\ \A c \in DOMAIN rlStore :
       /\ rlStore[c].count >= 1 /\ rlStore[c].count <= maxRequests
       /\ nowMs <= rlStore[c].resetTime =>
            Len(SelectSeq(admits[c], LAMBDA t : t + windowMs >= rlStore[c].resetTime))
              = rlStore[c].count

\* C23 witness: more than maxRequests requests of one client were admitted
\* within the last windowMs milliseconds, across a window reset.
C23_Witness ==
  \E c \in DOMAIN rlStore :
    /\ Len(admits[c]) > maxRequests
    /\ admits[c][1] + windowMs < rlStore[c].resetTime
    /\ nowMs - admits[c][1] <= windowMs

\* C24 as stated (its conclusion): a request of a client that arrives
\* windowMs or more after the start of the client's window is admitted.
C24_AdmittedFromResetTime ==
  [][(IsLimiterRequest /\ rl'.client \in DOMAIN rlStore
        /\ nowMs >= rlStore[rl'.client].resetTime) => rl'.next]_vars

\* C24 amended: a request that arrives after resetTime (more than windowMs
\* after the start of the window), like the first request of a client, is
\* admitted and leaves the client's entry at count 1 and resetTime
\* now + windowMs; a rejected request leaves the store as it was, and a
\* request is rejected only up to and including resetTime itself.
C24_AdmittedAfterResetTime ==
  [][IsLimiterRequest =>
       LET c == rl'.client IN
         /\ (c \notin DOMAIN rlStore \/ nowMs > rlStore[c].resetTime)
              => /\ rl'.next
                 /\ rlStore'[c].count = 1
                 /\ rlStore'[c].resetTime = nowMs + windowMs
         /\ ~rl'.next
              => /\ rlStore' = rlStore
                 /\ c \in DOMAIN rlStore
                 /\ nowMs <= rlStore[c].resetTime ]_vars

\* C24 witness: a request has just started a second window of its client,
\* after a request of the same client was admitted in the window before.
C24_Witness ==
  /\ rl.client \in Clients /\ rl.next
  /\ rl.at > windowMs
  /\ rlStore[rl.client].count = 1
  /\ rlStore[rl.client].resetTime = rl.at + windowMs
  /\ Len(admits[rl.client]) > 1

\* the store without the entries of the other client keys
OwnEntry(store, clientId) ==
  [k \in DOMAIN store \cap {clientId} |-> store[k]]

\* C30: a request of client key A leaves the store as it was for every
\* other key: a key without entry stays without, an entry keeps its count
\* and resetTime.  Whether the request is admitted, and the response when
\* it is not, are what they are on a store that holds A's entry alone, and
\* so is the entry it leaves for A.
C30_ClientsIsolated ==
  /\ [][IsLimiterRequest =>
          \A k \in Clients \ {rl'.client} :
            /\ k \in DOMAIN rlStore' <=> k \in DOMAIN rlStore
            /\ k \in DOMAIN rlStore => rlStore'[k] = rlStore[k] ]_vars
  /\ [](\A c \in Clients :
          LET all == Middleware(rlStore, c, nowMs)
              own == Middleware(OwnEntry(rlStore, c), c, nowMs)
          IN  /\ all.next = own.next
              /\ all.response = own.response
              /\ all.store[c] = own.store[c])

\* C30 witness: a request of A has just been rejected while B, with an
\* entry of its own in an open window, is still below its limit.
C30_Witness ==
  /\ rl.client = "A" /\ ~rl.next
  /\ "B" \in DOMAIN rlStore
  /\ nowMs <= rlStore["B"].resetTime
  /\ rlStore["B"].count < maxRequests
  /\ rlStore["B"].resetTime # rlStore["A"].resetTime

\* C25: no row of the table has a shortCode whose lowercased form is one of
\* the reserved words, whether the code was supplied or generated.
C25_NoReservedCodeStored ==
  \A r \in table : ToLowerCase(r.shortCode) \notin reservedWords


\* a statement of a store operation that names the table settles in this step
TableQuerySettles ==
  \E p \in Procs : /\ call[p].at = "query"
                   /\ UsesTable(call[p].method)
                   /\ call'[p] # call[p]

\* C26: every statement of a store operation is executed after the schema
\* initialization of the Database has completed.
C26_NoQueryBeforeInit == [][TableQuerySettles => schema = "ready"]_vars


\* the canonical form of the input ends in two slashes or more
EndsInTwoSlashes(url) ==
  LET path == UrlToString(url).path IN
    /\ Parses(url)
    /\ Len(path) >= 2
    /\ path[Len(path)] = "/" /\ path[Len(path) - 1] = "/"

FallsBack == {Undefined, <<"0">>, <<"a">>}

\* C28: a successful response of GET /api/urls has page >= 1 and limit >= 1,
\* the page was selected at offset (page - 1) * limit >= 0, totalPages is
\* the least number of pages of limit rows that hold total rows, hasNext
\* says page < totalPages and hasPrev says page > 1; a missing, non-numeric
\* or zero page is taken as 1 and such a limit as 50.
C28_PaginationConsistent ==
  /\ [](  (step.op = "list" /\ step.at = "page" /\ res.status = 200) =>
            LET pg == res.body.pagination IN
              /\ pg.page >= 1 /\ pg.limit >= 1
              /\ step.limit = pg.limit
              /\ step.offset = (pg.page - 1) * pg.limit /\ step.offset >= 0
              /\ pg.totalPages * pg.limit >= pg.total
              /\ (pg.totalPages - 1) * pg.limit < pg.total
              /\ pg.hasNext <=> pg.page < pg.totalPages
              /\ pg.hasPrev <=> pg.page > 1 )
  /\ [][ (step'.op = "list" /\ step'.at = "idle" /\ "threw" \notin DOMAIN step') =>
            LET p == step'.slot
                query == step'.query
            IN  /\ query.page \in FallsBack => loc'[p].page = 1
                /\ query.limit \in FallsBack => loc'[p].limit = 50 ]_vars

\* C28 witness: the second of two pages of one row
C28_Witness ==
  /\ step.op = "list" /\ step.at = "page" /\ res.status = 200
  /\ res.body.pagination = [page |-> 2, limit |-> 1, total |-> 2, totalPages |-> 2,
                            hasNext |-> FALSE, hasPrev |-> TRUE]
  /\ step.offset = 1


\* C29: the total of a successful list response is the number of rows of the
\* table from which its page was selected, whatever other requests do
\* between the two statements of getAllUrls.
C29_TotalOfPageState ==
  (step.op = "list" /\ step.at = "page" /\ res.status = 200) =>
    res.body.pagination.total = Cardinality(table)

=============================================================================
